---- MODULE Spec2Model ----
(***************************************************************************)
(* WordPiece.py: WordPieceTrainer.fit (vocabulary training by batched     *)
(* bigram merges) and WordPieceTokenizer.encode / decode (greedy longest   *)
(* match segmentation and its inverse).                                    *)
(*                                                                         *)
(* A Python str is a sequence of one-character strings, so that joining,   *)
(* replacing and splitting are computed character by character as          *)
(* str.join, str.replace and str.split compute them.  A token is a str, a  *)
(* word of the training index is a sequence of tokens.                     *)
(***************************************************************************)
EXTENDS Integers, Sequences, FiniteSets, TLC

VARIABLES
    pc,               \* position of the trainer: "init", "loop", "done", "raised"
    text,             \* the argument of fit
    vocab_size,       \* self.vocab_size
    valid_symbols,    \* self.valid_symbols: {} for None, {list} otherwise
    max_symbols,      \* self.max_symbols:   {} for None, {n} otherwise
    history,          \* self.history
    tokens,           \* self.tokens
    word_counts,      \* fit's word_counts: sequence of [word, count]
    num_tokens,       \* fit's num_tokens
    bigram_mi,        \* fit's bigram_mi of the latest round (bigrams in ranked order)
    bigrams_to_merge, \* fit's bigrams_to_merge of the latest round
    rounds,           \* number of "Total tokens in vocab" lines printed
    files,            \* ./tokenizer_data/: file name -> {} (absent) or {content}
    tk,               \* the WordPieceTokenizer object: {} before construction
    call              \* the latest encode / decode call and its outcome

vars == <<pc, text, vocab_size, valid_symbols, max_symbols, history, tokens,
          word_counts, num_tokens, bigram_mi, bigrams_to_merge, rounds,
          files, tk, call>>

trainer_vars == <<pc, text, vocab_size, valid_symbols, max_symbols, history,
                  tokens, word_counts, num_tokens, bigram_mi,
                  bigrams_to_merge, rounds>>

----------------------------------------------------------------------------
(* Bounds of the model *)

\* a corpus holds at most MaxCorpusWords words of CorpusWords
MaxCorpusWords == 2
\* vocab_size asks for at most MaxGrowth tokens beyond the seed alphabet
MaxGrowth == 4
\* a text given to encode is made of at most MaxTextPieces pieces of TextPieces
MaxTextPieces == 3
\* a sequence given to decode holds at most MaxDecodeLen indices
MaxDecodeLen == 2
\* the merge loop is followed for at most MaxRounds rounds.  A round that
\* accepts a merge adds a token, so a training that reaches vocab_size does so
\* within MaxGrowth rounds; only a loop that no longer grows is cut off
MaxRounds == MaxGrowth + 2

----------------------------------------------------------------------------
(* Strings *)

SP == " "
MARKER == "_"
UNK == <<"<", "u", "n", "k", ">">>
MASK == <<"<", "m", "a", "s", "k", ">">>
SEP == <<"<", "s", "e", "p", ">">>
CLS == <<"<", "c", "l", "s", ">">>
PAD == <<"<", "p", "a", "d", ">">>

Range(s) == {s[i] : i \in 1..Len(s)}

\* x in list
In(x, list) == \E i \in 1..Len(list) : list[i] = x

Last(s) == s[Len(s)]

\* s[from:] of Python, from counted from 0
Drop(s, n) == SubSeq(s, n + 1, Len(s))

RECURSIVE Concat(_)
\* ''.join(seq)
Concat(seq) == IF seq = <<>> THEN <<>> ELSE Head(seq) \o Concat(Tail(seq))

RECURSIVE JoinSp(_)
\* ' '.join(seq)
JoinSp(seq) ==
    IF seq = <<>> THEN <<>>
    ELSE IF Len(seq) = 1 THEN Head(seq)
    ELSE Head(seq) \o <<SP>> \o JoinSp(Tail(seq))

\* list(word): the characters of a str, each a str of length one
Chars(word) == [i \in 1..Len(word) |-> <<word[i]>>]

RECURSIVE Replace(_, _, _)
\* s.replace(old, new) for a non-empty old: every occurrence, left to right,
\* non-overlapping
Replace(s, old, new) ==
    IF Len(s) < Len(old) THEN s
    ELSE IF SubSeq(s, 1, Len(old)) = old
         THEN new \o Replace(Drop(s, Len(old)), old, new)
         ELSE <<Head(s)>> \o Replace(Tail(s), old, new)

RECURSIVE SplitFrom(_, _)
\* the scan of s.split(): cur is the piece being read
SplitFrom(s, cur) ==
    IF s = <<>> THEN (IF cur = <<>> THEN <<>> ELSE <<cur>>)
    ELSE IF Head(s) = SP
         THEN (IF cur = <<>> THEN <<>> ELSE <<cur>>) \o SplitFrom(Tail(s), <<>>)
         ELSE SplitFrom(Tail(s), Append(cur, Head(s)))

\* s.split(): maximal runs of non-whitespace characters
Split(s) == SplitFrom(s, <<>>)

RECURSIVE Distinct(_, _)
\* the keys of a dict / Counter filled from seq: first occurrences, in order
Distinct(seq, seen) ==
    IF seq = <<>> THEN seen
    ELSE IF Head(seq) \in Range(seen) THEN Distinct(Tail(seq), seen)
         ELSE Distinct(Tail(seq), Append(seen, Head(seq)))

Reverse(s) == [i \in 1..Len(s) |-> s[Len(s) + 1 - i]]

\* number of positions of seq holding x
Occurrences(seq, x) == Cardinality({i \in 1..Len(seq) : seq[i] = x})

RECURSIVE SeqsUpTo(_, _)
\* the sequences over S of length at most n
SeqsUpTo(S, n) ==
    IF n = 0 THEN {<<>>}
    ELSE LET shorter == SeqsUpTo(S, n - 1)
         IN  shorter \cup {Append(s, x) : s \in {t \in shorter : Len(t) = n - 1}, x \in S}

----------------------------------------------------------------------------
(* WordPieceTrainer: helper functions *)

\* list(set(text)): the distinct characters of text.  The iteration order of a
\* set is unspecified; the list is drawn from these orders.
SetOrders(txt) ==
    LET first == Distinct(Chars(txt), <<>>)
    IN  {first, Reverse(first)}

\* _get_symbols with max_symbols None, symbols being list(set(text))
get_symbols(symbols) ==
    [valid_symbols   |-> IF In(<<MARKER>>, symbols)
                         THEN symbols ELSE Append(symbols, <<MARKER>>),
     invalid_symbols |-> <<>>]

\* _split_word
split_word(word) ==
    <<<<MARKER>>>> \o
    Split(Replace(JoinSp(Chars(word)),
                  <<"<", SP, "u", SP, "n", SP, "k", SP, ">">>, UNK))

\* nltk.FreqDist(text.split()).items() turned into word_counts
WordCounts(txt) ==
    LET all  == Split(txt)
        keys == Distinct(all, <<>>)
    IN  [i \in 1..Len(keys) |->
            [word |-> split_word(keys[i]), count |-> Occurrences(all, keys[i])]]

\* nltk.bigrams(word)
Bigrams(word) == [i \in 1..(Len(word) - 1) |-> <<word[i], word[i + 1]>>]

\* _count_multiply: a dict as its entries in insertion order
count_multiply(seq, count) ==
    LET keys == Distinct(seq, <<>>)
    IN  [i \in 1..Len(keys) |->
            [key |-> keys[i], n |-> Occurrences(seq, keys[i]) * count]]

\* Counter.__getitem__: the count of key, 0 when key is missing
CounterGet(counter, key) ==
    IF \E i \in 1..Len(counter) : counter[i].key = key
    THEN counter[CHOOSE i \in 1..Len(counter) : counter[i].key = key].n
    ELSE 0

RECURSIVE CounterUpdate(_, _)
\* Counter.update(entries): counts are added, new keys are appended
CounterUpdate(counter, entries) ==
    IF entries = <<>> THEN counter
    ELSE LET e == Head(entries)
             next == IF \E i \in 1..Len(counter) : counter[i].key = e.key
                     THEN [i \in 1..Len(counter) |->
                              IF counter[i].key = e.key
                              THEN [counter[i] EXCEPT !.n = @ + e.n]
                              ELSE counter[i]]
                     ELSE Append(counter, e)
         IN  CounterUpdate(next, Tail(entries))

RECURSIVE CountFrom(_, _, _)
\* the loop of _count_ngrams
CountFrom(wc, unigram_counts, bigram_counts) ==
    IF wc = <<>> THEN [unigram_counts |-> unigram_counts,
                       bigram_counts  |-> bigram_counts]
    ELSE LET element == Head(wc)
         IN  CountFrom(Tail(wc),
                 CounterUpdate(unigram_counts,
                     count_multiply(element.word, element.count)),
                 CounterUpdate(bigram_counts,
                     count_multiply(Bigrams(element.word), element.count)))

\* _count_ngrams
count_ngrams(wc) == CountFrom(wc, <<>>, <<>>)

\* bigram_mi before sorting (fit, lines 48-55).  'mi' is the quotient
\* count / (unigram count * unigram count), kept as <<numerator, denominator>>
BigramMi(counts) ==
    [i \in 1..Len(counts.bigram_counts) |->
        LET e == counts.bigram_counts[i]
        IN  [bigram |-> e.key,
             mi |-> <<e.n, CounterGet(counts.unigram_counts, e.key[1])
                           * CounterGet(counts.unigram_counts, e.key[2])>>]]

\* x['mi'] < y['mi'], the quotients compared exactly
MiLess(x, y) == x.mi[1] * y.mi[2] < y.mi[1] * x.mi[2]

RECURSIVE InsertDesc(_, _)
InsertDesc(sorted, x) ==
    IF sorted = <<>> THEN <<x>>
    ELSE IF MiLess(Head(sorted), x) THEN <<x>> \o sorted
         ELSE <<Head(sorted)>> \o InsertDesc(Tail(sorted), x)

RECURSIVE SortFrom(_, _)
SortFrom(seq, sorted) ==
    IF seq = <<>> THEN sorted
    ELSE SortFrom(Tail(seq), InsertDesc(sorted, Head(seq)))

\* list.sort(key=lambda x: x['mi'], reverse=True): descending and stable
SortByMi(seq) == SortFrom(seq, <<>>)

RECURSIVE IndependedScan(_, _, _, _)
\* the for loop of _get_independed_bigrams over the rest of bigram_mi
IndependedScan(rest, to_merge, unique_unigrams, new_tokens) ==
    IF rest = <<>>
    THEN [bigrams_to_merge |-> to_merge, new_tokens |-> new_tokens]
    ELSE LET bigram == Head(rest).bigram
         IN  IF ~In(bigram[1], unique_unigrams)
                /\ ~In(bigram[2], unique_unigrams)
             THEN IndependedScan(Tail(rest),
                      Append(to_merge, bigram),
                      unique_unigrams \o bigram,
                      Append(new_tokens, Concat(bigram)))
             ELSE [bigrams_to_merge |-> to_merge, new_tokens |-> new_tokens]

RECURSIVE ScanLeftOnly(_, _, _, _)
\* the scan, were only the left token of a bigram looked up in unique_unigrams
ScanLeftOnly(rest, to_merge, unique_unigrams, new_tokens) ==
    IF rest = <<>>
    THEN [bigrams_to_merge |-> to_merge, new_tokens |-> new_tokens]
    ELSE LET bigram == Head(rest).bigram
         IN  IF ~In(bigram[1], unique_unigrams)
             THEN ScanLeftOnly(Tail(rest),
                      Append(to_merge, bigram),
                      unique_unigrams \o bigram,
                      Append(new_tokens, Concat(bigram)))
             ELSE [bigrams_to_merge |-> to_merge, new_tokens |-> new_tokens]

get_independed_bigrams_left_only(ranked) == ScanLeftOnly(ranked, <<>>, <<>>, <<>>)

RECURSIVE ScanContinue(_, _, _, _)
\* the scan, were a conflicting bigram skipped (continue) instead of ending it
ScanContinue(rest, to_merge, unique_unigrams, new_tokens) ==
    IF rest = <<>>
    THEN [bigrams_to_merge |-> to_merge, new_tokens |-> new_tokens]
    ELSE LET bigram == Head(rest).bigram
         IN  IF ~In(bigram[1], unique_unigrams)
                /\ ~In(bigram[2], unique_unigrams)
             THEN ScanContinue(Tail(rest),
                      Append(to_merge, bigram),
                      unique_unigrams \o bigram,
                      Append(new_tokens, Concat(bigram)))
             ELSE ScanContinue(Tail(rest), to_merge, unique_unigrams, new_tokens)

get_independed_bigrams_continue(ranked) == ScanContinue(ranked, <<>>, <<>>, <<>>)

\* _get_independed_bigrams
get_independed_bigrams(ranked) == IndependedScan(ranked, <<>>, <<>>, <<>>)

RECURSIVE ReplaceEach(_, _)
\* the for loop of _merge_bigrams_in_word on the joined word
ReplaceEach(w, bigrams) ==
    IF bigrams = <<>> THEN w
    ELSE LET bigram == Head(bigrams)
         IN  ReplaceEach(Replace(w, bigram[1] \o <<SP>> \o bigram[2],
                                    bigram[1] \o bigram[2]),
                         Tail(bigrams))

\* _merge_bigrams_in_word
merge_bigrams_in_word(word, bigrams) == Split(ReplaceEach(JoinSp(word), bigrams))

PrependIfAbsent(token, toks) ==
    IF In(token, toks) THEN toks ELSE <<token>> \o toks

\* the finalization, were the reserved tokens put in front without the
\* "not in" tests
FinalizeAlways(toks) == <<PAD, CLS, SEP, MASK, UNK>> \o toks

\* fit, lines 68-77: the reserved tokens, each put in front when absent
Finalize(toks) ==
    PrependIfAbsent(PAD,
        PrependIfAbsent(CLS,
            PrependIfAbsent(SEP,
                PrependIfAbsent(MASK,
                    PrependIfAbsent(UNK, toks)))))

\* fit, line 81: {token: number for number, token in enumerate(tokens)};
\* a later position of the same token overwrites an earlier one
token2ix(toks) ==
    [t \in Range(toks) |->
        (CHOOSE i \in 1..Len(toks) :
            toks[i] = t /\ \A j \in 1..Len(toks) : toks[j] = t => j <= i) - 1]

----------------------------------------------------------------------------
(* Inputs *)

\* the words of the corpora whose vocabularies the tokenizer is followed with
CorpusWords == {<<"a", "a", "b">>, <<"a", "b", "c">>, SEP, UNK}

Corpora == {JoinSp(ws) : ws \in SeqsUpTo(CorpusWords, MaxCorpusWords)}

\* the words of the corpora the trainer alone is followed with
TrainCorpusWords ==
    CorpusWords \cup {<<"a">>, <<"a", "b">>, <<"b", "a">>, <<"b", "c">>}

TrainCorpora == {JoinSp(ws) : ws \in SeqsUpTo(TrainCorpusWords, MaxCorpusWords)}

\* the size of the seed alphabet of a corpus
SeedSize(t) ==
    Len(get_symbols(CHOOSE o \in SetOrders(t) : TRUE).valid_symbols)

VocabSizes(t) == {SeedSize(t) + k : k \in 0..MaxGrowth}

----------------------------------------------------------------------------
(* WordPieceTrainer *)

NoFiles == [valid_symbols |-> {}, idx2token |-> {}, token2idx |-> {}]

NoCall == [op |-> "none", text |-> <<>>, words |-> <<>>, pieces |-> <<>>,
           seq |-> <<>>, err |-> "none", ids |-> <<>>, str |-> <<>>]

\* the trainer after __init__, about to fit a text of corpora; valid_symbols
\* and max_symbols are None or given
InitWith(corpora) ==
    /\ pc = "init"
    /\ text \in corpora
    /\ vocab_size \in VocabSizes(text)
    /\ valid_symbols \in {{}, {<<<<"a">>, <<"b">>>>}}
    /\ max_symbols \in {{}, {1}}
    /\ history = <<>>
    /\ tokens = <<>>
    /\ word_counts = <<>>
    /\ num_tokens = 0
    /\ bigram_mi = <<>>
    /\ bigrams_to_merge = <<>>
    /\ rounds = 0
    /\ files = NoFiles
    /\ tk = {}
    /\ call = NoCall

Init == InitWith(Corpora)

InitTrain == InitWith(TrainCorpora)

\* fit, lines 27-28 with max_symbols given: nltk.FreqDist.most_common is called
\* on the class with max_symbols as self, which raises
FitSymbolsRaise ==
    /\ pc = "init"
    /\ valid_symbols = {}
    /\ max_symbols # {}
    /\ pc' = "raised"
    /\ UNCHANGED <<text, vocab_size, valid_symbols, max_symbols, history, tokens,
                   word_counts, num_tokens, bigram_mi, bigrams_to_merge, rounds,
                   files, tk, call>>

\* fit, lines 27-33 with valid_symbols given: invalid_symbols is never bound
\* and its first use at line 33 raises
FitUserSymbolsRaise ==
    /\ pc = "init"
    /\ valid_symbols # {}
    /\ tokens' = (CHOOSE v \in valid_symbols : TRUE)
    /\ pc' = "raised"
    /\ UNCHANGED <<text, vocab_size, valid_symbols, max_symbols, history,
                   word_counts, num_tokens, bigram_mi, bigrams_to_merge, rounds,
                   files, tk, call>>

\* fit, lines 27-40: the seed alphabet and the word index.  Lines 33-35 replace
\* nothing: invalid_symbols is empty here and str.replace's result is dropped
FitStart ==
    /\ pc = "init"
    /\ valid_symbols = {}
    /\ max_symbols = {}
    /\ \E symbols \in SetOrders(text) :
          LET got == get_symbols(symbols)
          IN  /\ valid_symbols' = {got.valid_symbols}
              /\ tokens' = got.valid_symbols
              /\ files' = [files EXCEPT !.valid_symbols = {got.valid_symbols}]
              /\ num_tokens' = Len(got.valid_symbols)
    /\ word_counts' = WordCounts(text)
    /\ pc' = "loop"
    /\ UNCHANGED <<text, vocab_size, max_symbols, history, bigram_mi,
                   bigrams_to_merge, rounds, tk, call>>

\* fit, lines 41-66: one round of the while loop
Round ==
    /\ pc = "loop"
    /\ num_tokens < vocab_size
    /\ rounds < MaxRounds
    /\ LET ranked == SortByMi(BigramMi(count_ngrams(word_counts)))
           got    == get_independed_bigrams(ranked)
       IN  /\ bigram_mi' = ranked
           /\ bigrams_to_merge' = got.bigrams_to_merge
           /\ history' = history \o got.bigrams_to_merge
           /\ tokens' = tokens \o got.new_tokens
           \* self.valid_symbols is the same list object as self.tokens
           /\ valid_symbols' = {tokens \o got.new_tokens}
           /\ word_counts' =
                 [i \in 1..Len(word_counts) |->
                     [word_counts[i] EXCEPT
                        !.word = merge_bigrams_in_word(@, got.bigrams_to_merge)]]
           /\ num_tokens' = Len(tokens) + Len(got.new_tokens)
    /\ rounds' = rounds + 1
    /\ UNCHANGED <<pc, text, vocab_size, max_symbols, files, tk, call>>

\* fit, lines 68-84: the reserved tokens, the two files, the return
FitReturn ==
    /\ pc = "loop"
    /\ ~(num_tokens < vocab_size)
    /\ tokens' = Finalize(tokens)
    /\ files' = [files EXCEPT !.idx2token = {Finalize(tokens)},
                              !.token2idx = {token2ix(Finalize(tokens))}]
    /\ pc' = "done"
    /\ UNCHANGED <<text, vocab_size, valid_symbols, max_symbols, history,
                   word_counts, num_tokens, bigram_mi, bigrams_to_merge, rounds,
                   tk, call>>

----------------------------------------------------------------------------
(* WordPieceTokenizer *)

RECURSIVE TokenizeLoop(_, _, _, _, _)
\* the while loop of _tokenize_word and the fallback after it; start and end
\* are Python's offsets, word[start: end] is SubSeq(word, start + 1, end)
TokenizeLoop(word, start, end, cur_output, idx2token) ==
    IF start < Len(word) /\ start < end
    THEN IF In(SubSeq(word, start + 1, end), idx2token)
         THEN TokenizeLoop(word, end, Len(word),
                           Append(cur_output, SubSeq(word, start + 1, end)),
                           idx2token)
         ELSE TokenizeLoop(word, start, end - 1, cur_output, idx2token)
    ELSE IF start < Len(word) THEN Append(cur_output, UNK) ELSE cur_output

RECURSIVE TokenizeShortest(_, _, _, _, _)
\* the segmentation, were the window grown from one character instead of
\* shrunk from the whole rest of the word
TokenizeShortest(word, start, end, cur_output, idx2token) ==
    IF start < Len(word) /\ end <= Len(word)
    THEN IF In(SubSeq(word, start + 1, end), idx2token)
         THEN TokenizeShortest(word, end, end + 1,
                               Append(cur_output, SubSeq(word, start + 1, end)),
                               idx2token)
         ELSE TokenizeShortest(word, start, end + 1, cur_output, idx2token)
    ELSE IF start < Len(word) THEN Append(cur_output, UNK) ELSE cur_output

tokenize_word_shortest(word, idx2token) ==
    TokenizeShortest(word, 0, 1, <<>>, idx2token)

\* _tokenize_word
tokenize_word(word, idx2token) == TokenizeLoop(word, 0, Len(word), <<>>, idx2token)

\* encode.  Lines 176-180 leave text as it is: the loop body runs only when
\* invalid_symbols is empty, and the result of str.replace is dropped
encode(t, tok) ==
    LET split  == Split(t)
        words  == [i \in 1..Len(split) |-> <<MARKER>> \o split[i]]
        pieces == [i \in 1..Len(words) |-> tokenize_word(words[i], tok.idx2token)]
        output == Concat(pieces)
        found  == \A i \in 1..Len(output) : output[i] \in DOMAIN tok.token2idx
    IN  [op |-> "encode", text |-> t, words |-> words, pieces |-> pieces,
         seq |-> <<>>,
         err |-> IF found THEN "none" ELSE "KeyError",
         ids |-> IF found THEN [i \in 1..Len(output) |-> tok.token2idx[output[i]]]
                 ELSE <<>>,
         str |-> <<>>]

\* list.__getitem__ with an int: a negative index counts from the end
ListHas(list, idx) == -Len(list) <= idx /\ idx < Len(list)
ListGet(list, idx) == IF idx >= 0 THEN list[idx + 1] ELSE list[Len(list) + idx + 1]

\* decode, were the marker left in the text
decode_keep_marker(sequence, tok) ==
    IF \A i \in 1..Len(sequence) : ListHas(tok.idx2token, sequence[i])
    THEN [err |-> "none",
          str |-> Concat([i \in 1..Len(sequence) |->
                             ListGet(tok.idx2token, sequence[i])])]
    ELSE [err |-> "IndexError", str |-> <<>>]

\* decode: the error and the returned text
decode(sequence, tok) ==
    IF \A i \in 1..Len(sequence) : ListHas(tok.idx2token, sequence[i])
    THEN [err |-> "none",
          str |-> Replace(Concat([i \in 1..Len(sequence) |->
                                     ListGet(tok.idx2token, sequence[i])]),
                          <<MARKER>>, <<SP>>)]
    ELSE [err |-> "IndexError", str |-> <<>>]

TextPieces == {<<"a">>, <<"b">>, <<SP>>, SEP}

Texts == {Concat(ps) : ps \in SeqsUpTo(TextPieces, MaxTextPieces)}

\* indices around the two ends of a list of n tokens
DecodeIndices(n) == {-(n + 1), -1, 0, n - 1, n}

\* WordPieceTokenizer.__init__ with the three files in place.  fit is
\* synchronous: its caller goes on once it has returned or raised
TokenizerInit ==
    /\ pc \in {"done", "raised"}
    /\ tk = {}
    /\ \A f \in DOMAIN files : files[f] # {}
    /\ tk' = {[valid_symbols |-> CHOOSE v \in files.valid_symbols : TRUE,
               idx2token     |-> CHOOSE v \in files.idx2token : TRUE,
               token2idx     |-> CHOOSE v \in files.token2idx : TRUE]}
    /\ UNCHANGED <<trainer_vars, files, call>>

\* WordPieceTokenizer.__init__ with a file missing: open raises
TokenizerInitRaise ==
    /\ pc \in {"done", "raised"}
    /\ tk = {}
    /\ \E f \in DOMAIN files : files[f] = {}
    /\ call' = [NoCall EXCEPT !.op = "init", !.err = "FileNotFoundError"]
    /\ UNCHANGED <<trainer_vars, files, tk>>

\* encode and decode leave the tokenizer as it is, so the outcome of a call
\* does not depend on the calls before it: a behaviour follows one call, and
\* the decode of what an encode returned
Encode ==
    /\ tk # {}
    /\ call.op = "none"
    /\ \E t \in Texts : call' = encode(t, CHOOSE tok \in tk : TRUE)
    /\ UNCHANGED <<trainer_vars, files, tk>>

Decode ==
    /\ tk # {}
    /\ call.op = "none"
    /\ \E sequence \in SeqsUpTo(DecodeIndices(Len(tokens)), MaxDecodeLen) :
          LET got == decode(sequence, CHOOSE tok \in tk : TRUE)
          IN  call' = [NoCall EXCEPT !.op = "decode", !.seq = sequence,
                                     !.err = got.err, !.str = got.str]
    /\ UNCHANGED <<trainer_vars, files, tk>>

\* decode(encode(text)): decode given what the latest encode returned
DecodeEncoded ==
    /\ tk # {}
    /\ call.op = "encode"
    /\ call.err = "none"
    /\ LET got == decode(call.ids, CHOOSE tok \in tk : TRUE)
       IN  call' = [call EXCEPT !.op = "decode_encoded", !.seq = call.ids,
                                !.err = got.err, !.str = got.str]
    /\ UNCHANGED <<trainer_vars, files, tk>>

Next ==
    \/ FitSymbolsRaise
    \/ FitUserSymbolsRaise
    \/ FitStart
    \/ Round
    \/ FitReturn
    \/ TokenizerInit
    \/ TokenizerInitRaise
    \/ Encode
    \/ Decode
    \/ DecodeEncoded

TrainNext ==
    \/ FitSymbolsRaise
    \/ FitUserSymbolsRaise
    \/ FitStart
    \/ Round
    \/ FitReturn

\* the trainer alone
SpecTrain == InitTrain /\ [][TrainNext]_vars

Spec == Init /\ [][Next]_vars

----------------------------------------------------------------------------
(* Claims about WordPieceTrainer *)

NoDuplicates(list) ==
    \A i, j \in 1..Len(list) : list[i] = list[j] => i = j

\* C1: whenever fit returns, the returned and persisted token list has <pad>,
\* <cls>, <sep>, <mask>, <unk> at indices 0 to 4, whatever the rounds created.
C1_ReservedPrefix ==
    pc = "done" =>
        /\ Len(tokens) >= 5
        /\ SubSeq(tokens, 1, 5) = <<PAD, CLS, SEP, MASK, UNK>>
        /\ files.idx2token = {tokens}

\* C3: a round that accepts no merge while the token count is below vocab_size
\* ends the loop (training is aborted) instead of leaving it to run again.
C3_StalledRoundEndsLoop ==
    [][(/\ pc = "loop"
        /\ rounds' = rounds + 1
        /\ bigrams_to_merge' = <<>>
        /\ num_tokens' < vocab_size) => pc' # "loop"]_vars

\* C4: after a completed training every token occurs at one position of
\* idx2token only (no round appends a string the list holds already), and
\* token2idx is the inverse of idx2token with as many entries as the list.
C4_Token2idxInverse ==
    /\ pc \in {"loop", "done"} => NoDuplicates(tokens)
    /\ pc = "done" =>
          \A l \in files.idx2token : \A m \in files.token2idx :
              /\ l = tokens
              /\ \A i \in 1..Len(l) : m[l[i]] = i - 1
              /\ Cardinality(DOMAIN m) = Len(l)

\* a training that has returned after its rounds made a reserved token
C4_Witness ==
    /\ pc = "done"
    /\ \E i \in 1..Len(history) : Concat(history[i]) = SEP

Shares(b1, b2) == {b1[1], b1[2]} \cap {b2[1], b2[2]} # {}

\* C8: in every round no token is part of more than one accepted bigram.
C8_NoSharedToken ==
    \A i, j \in 1..Len(bigrams_to_merge) :
        i < j => ~Shares(bigrams_to_merge[i], bigrams_to_merge[j])

\* a round that accepted two bigrams or more
C8_Witness == rounds > 0 /\ Len(bigrams_to_merge) >= 2

RECURSIVE MergePair(_, _)
\* one bigram merged in a word token by token: left to right, non-overlapping
MergePair(word, bigram) ==
    IF Len(word) < 2 THEN word
    ELSE IF word[1] = bigram[1] /\ word[2] = bigram[2]
         THEN <<bigram[1] \o bigram[2]>> \o MergePair(Drop(word, 2), bigram)
         ELSE <<Head(word)>> \o MergePair(Tail(word), bigram)

RECURSIVE TokenMerge(_, _)
\* the bigrams merged in a word one after the other, token by token
TokenMerge(word, bigrams) ==
    IF bigrams = <<>> THEN word
    ELSE TokenMerge(MergePair(word, Head(bigrams)), Tail(bigrams))

\* C9: a round turns every word into its token-level merge: only a left token
\* directly followed by the right token, both whole elements of the word, is
\* joined, and nothing else is changed.
C9_TokenLevelMerge ==
    [][rounds' = rounds + 1 =>
          \A i \in 1..Len(word_counts) :
              word_counts'[i].word =
                  TokenMerge(word_counts[i].word, bigrams_to_merge')]_vars

\* the first k bigrams of the ranked list share no token with one another
ConflictFree(k) ==
    \A i, j \in 1..k : i < j => ~Shares(bigram_mi[i].bigram, bigram_mi[j].bigram)

\* C10: the bigrams accepted in a round are the longest prefix of the ranked
\* list in which no bigram shares a token with an earlier one, and a round
\* appends them, in that order, to the history and (joined) to the tokens.
C10_FirstConflictStop ==
    /\ [](\E k \in 0..Len(bigram_mi) :
             /\ ConflictFree(k)
             /\ k < Len(bigram_mi) => ~ConflictFree(k + 1)
             /\ bigrams_to_merge = [i \in 1..k |-> bigram_mi[i].bigram])
    /\ [][rounds' = rounds + 1 =>
             /\ history' = history \o bigrams_to_merge'
             /\ tokens' = tokens \o [i \in 1..Len(bigrams_to_merge') |->
                                        Concat(bigrams_to_merge'[i])]]_vars

\* a round whose ranked list holds, after the first rejected bigram, a bigram
\* that shares no token with the accepted ones
C10_Witness ==
    /\ rounds > 0
    /\ bigrams_to_merge # <<>>
    /\ \E j \in (Len(bigrams_to_merge) + 2)..Len(bigram_mi) :
          \A i \in 1..Len(bigrams_to_merge) :
              ~Shares(bigram_mi[j].bigram, bigrams_to_merge[i])

----------------------------------------------------------------------------
(* Claims about WordPieceTokenizer *)

Vocabulary == (CHOOSE tok \in tk : TRUE).idx2token

ValidSymbols == (CHOOSE tok \in tk : TRUE).valid_symbols

\* words separated by single spaces: no space at either end, no two in a row
SingleSpaced(t) ==
    /\ t # <<>> => t[1] # SP /\ t[Len(t)] # SP
    /\ \A i \in 1..(Len(t) - 1) : ~(t[i] = SP /\ t[i + 1] = SP)

\* the text of the latest encode is made of valid symbols, single-spaced, and
\* every word was segmented without the <unk> fallback
RoundTripCase ==
    /\ call.op = "decode_encoded"
    /\ \A i \in 1..Len(call.text) : In(<<call.text[i]>>, ValidSymbols)
    /\ SingleSpaced(call.text)
    /\ \A w \in 1..Len(call.words) : Concat(call.pieces[w]) = call.words[w]

\* C2 as stated: in the round-trip case decode(encode(text)) is text.
C2_RoundTripExact ==
    RoundTripCase => call.err = "none" /\ call.str = call.text

\* C2 as amended: in the round-trip case, for a text without the marker
\* character, decode(encode(text)) is text with one space put before it, and
\* the empty text for the empty text.
C2_RoundTripLeadingSpace ==
    (RoundTripCase /\ \A i \in 1..Len(call.text) : call.text[i] # MARKER) =>
        /\ call.err = "none"
        /\ call.str = IF call.text = <<>> THEN <<>> ELSE <<SP>> \o call.text

\* the round trip of a text of two words
C2_Witness ==
    /\ RoundTripCase
    /\ Len(call.words) = 2
    /\ \A i \in 1..Len(call.text) : call.text[i] # MARKER

RECURSIVE TotalLen(_)
TotalLen(seq) == IF seq = <<>> THEN 0 ELSE Len(Head(seq)) + TotalLen(Tail(seq))

\* the k-th token emitted for word is the longest string of the vocabulary
\* that starts where it starts
LongestAt(word, out, k) ==
    LET s == TotalLen(SubSeq(out, 1, k - 1))
        e == s + Len(out[k])
    IN  /\ e <= Len(word)
        /\ out[k] = SubSeq(word, s + 1, e)
        /\ In(out[k], Vocabulary)
        /\ \A longer \in (e + 1)..Len(word) :
              ~In(SubSeq(word, s + 1, longer), Vocabulary)

\* C5: for every marker-prefixed word of which some prefix is a token, the
\* first emitted token is the longest prefix in the vocabulary; every emitted
\* token other than <unk> is the longest vocabulary string at its position.
C5_LongestMatch ==
    call.op = "encode" =>
        \A w \in 1..Len(call.words) :
            LET word == call.words[w]
                out  == call.pieces[w]
            IN  /\ (\E e \in 1..Len(word) : In(SubSeq(word, 1, e), Vocabulary))
                      => out # <<>> /\ LongestAt(word, out, 1)
                /\ \A k \in 1..Len(out) : out[k] # UNK => LongestAt(word, out, k)

\* an encoded word cut into a marker-prefixed token and a token of two
\* characters or more
C5_Witness ==
    /\ call.op = "encode"
    /\ \E w \in 1..Len(call.words) :
          /\ Len(call.pieces[w]) >= 2
          /\ Len(call.pieces[w][1]) >= 2
          /\ Len(call.pieces[w][2]) >= 2

\* C6: with a trained vocabulary encode never raises, every emitted token has
\* an index, and a word all of whose characters are outside the valid symbols
\* gives a token sequence that ends in <unk>.
C6_EncodeDegradesToUnk ==
    call.op = "encode" =>
        /\ call.err = "none"
        /\ Len(call.ids) = Len(Concat(call.pieces))
        /\ \A i \in 1..Len(call.ids) :
              /\ call.ids[i] \in 0..(Len(Vocabulary) - 1)
              /\ Vocabulary[call.ids[i] + 1] = Concat(call.pieces)[i]
        /\ \A w \in 1..Len(call.words) :
              (\A i \in 2..Len(call.words[w]) :
                  ~In(<<call.words[w][i]>>, ValidSymbols))
              => Last(call.pieces[w]) = UNK

\* C7: decode ends in an error and returns no text whenever the sequence holds
\* an index outside 0 .. len(idx2token)-1, a negative index included.
C7_DecodeOutOfRangeRaises ==
    (/\ call.op = "decode"
     /\ \E i \in 1..Len(call.seq) : call.seq[i] \notin 0..(Len(Vocabulary) - 1))
    => call.err = "IndexError" /\ call.str = <<>>

====
